---- MODULE Spec2Model ----
(***************************************************************************)
(* The three HTTP handlers of netlify-cms-oauth as one state machine:      *)
(*   - the OAuth callback handler with its process-wide code cache and the *)
(*     sweep timer (src/api/callback.ts),                                  *)
(*   - the two upload handlers of src/api/upload.ts (the first without,    *)
(*     the second with the organisation check),                            *)
(*   - the login redirect handler (src/unnamed/part_000).                  *)
(* The browser window that loads a callback response and runs its script   *)
(* is part of the model as well.                                           *)
(* Node runs every handler on one event loop: the code between two awaits  *)
(* runs without interleaving, so each action below is one such stretch.    *)
(***************************************************************************)
EXTENDS Integers, Sequences, FiniteSets, TLC

VARIABLES
    env,        \* process.env: the three configuration values, fixed per process
    now,        \* Date.now(), in milliseconds since the last run of the timer
                \* before the first callback request
    lastSweep,  \* the time the setInterval callback last ran
    usedCodes,  \* the Map usedCodes: code -> [token, timestamp]
    callbacks,  \* the callback requests received so far, each with its position
    uploads,    \* the upload requests received so far, each with its position
    logins,     \* the login requests received so far, each with its response
    popup       \* the browser window that loads the response of a callback request

vars == <<env, now, lastSweep, usedCodes, callbacks, uploads, logins, popup>>

----------------------------------------------------------------------------
(* Bounds of the model *)

MaxCallbacks == 2
MaxUploads == 2
MaxRequests == 1
MaxTicks == 2

(* Values *)

Null == "<null>"
Codes == {"c1", "c2"}
CodeParams == Codes \cup {Null}
Tokens == {"t1", "t2"}
EnvValues == {Null, "set"}

\* JavaScript's !v for a string, null or undefined
Falsy(v) == v = Null \/ v = ""

\* a || b
OrElse(a, b) == IF Falsy(a) THEN b ELSE a

----------------------------------------------------------------------------
(* The clock and the sweep timer of callback.ts *)

RETENTION_MS == 5 * 60 * 1000
SWEEP_MS == 60 * 1000
ClockStep == SWEEP_MS
MaxTime == MaxTicks * ClockStep

\* the age test with a retention twice as long
ExpiredLate(data, t) == t - data.timestamp > 2 * RETENTION_MS

\* line 11: the age test of the sweep
Expired(data, t) == t - data.timestamp > RETENTION_MS

\* lines 9-14: the Map after the sweep callback ran at time t
Swept(cache, t) ==
    [c \in {d \in DOMAIN cache : ~Expired(cache[d], t)} |-> cache[c]]

\* lines 8-15: the setInterval callback, due every 60 s
Sweep ==
    /\ now - lastSweep >= SWEEP_MS
    /\ usedCodes' = Swept(usedCodes, now)
    /\ lastSweep' = now
    /\ UNCHANGED <<env, now, callbacks, uploads, logins, popup>>

\* time passes; the timer callback runs when it is due, before time moves on.
\* The clock is followed from the first callback request on, and as long as
\* the cache holds an entry.
Tick ==
    /\ now - lastSweep < SWEEP_MS
    /\ (now < MaxTime /\ callbacks # <<>>) \/ DOMAIN usedCodes # {}
    /\ now' = now + ClockStep
    /\ UNCHANGED <<env, lastSweep, usedCodes, callbacks, uploads, logins, popup>>

----------------------------------------------------------------------------
(* The callback handler of callback.ts *)

\* what the provider may answer to a token exchange
ExchangeBodies ==
    [error : {Null}, error_description : {Null}, access_token : Tokens \cup {Null, ""}]
    \cup [error : {"bad_verification_code"}, error_description : {"expired"},
          access_token : {Null, "t1"}]

NoExchangeBody == [error |-> Null, error_description |-> Null, access_token |-> Null]

\* "jsonNull" is the body null, which JSON.parse accepts
ExchangeOutcomes ==
    {[kind |-> "connError", body |-> NoExchangeBody],
     [kind |-> "badJson", body |-> NoExchangeBody],
     [kind |-> "jsonNull", body |-> NoExchangeBody]}
    \cup [kind : {"json"}, body : ExchangeBodies]

\* no answer of the provider yet
NoReply == [kind |-> "none", body |-> NoExchangeBody]

\* hit: the lookup of line 31 found an entry; stale: that entry was older than
\* five minutes (which the handler does not look at)
NewCallback(code) ==
    [code |-> code, pc |-> "start", exchanged |-> FALSE,
     hit |-> FALSE, stale |-> FALSE, reply |-> NoReply,
     statusCode |-> 0, script |-> "none", token |-> Null, error |-> <<>>]

\* lines 69-86: sendSuccess
sendSuccess(r, token) ==
    [r EXCEPT !.pc = "done", !.statusCode = 200, !.script = "success", !.token = token]

\* the catch branch answering with an error status
CatchError500(r, message) ==
    [r EXCEPT !.pc = "done", !.statusCode = 500, !.script = "error", !.error = message]

\* lines 53-66: the catch branch
CatchError(r, message) ==
    [r EXCEPT !.pc = "done", !.statusCode = 200, !.script = "error", !.error = message]

\* the lookup of line 31 left out
CachedNever(code) == FALSE

\* a lookup that passes over the entry older than five minutes
CachedFresh(code) == code \in DOMAIN usedCodes /\ ~Expired(usedCodes[code], now)

\* lines 31-32: usedCodes.get(code) found an entry
Cached(code) == code \in DOMAIN usedCodes

\* line 28: the credentials test
MissingCredentials == Falsy(env.client_id) \/ Falsy(env.client_secret)

\* lines 18-38: the handler up to its await: the request ends here, or the
\* exchange call is started (the promise executor of exchangeToken runs at once)
CallbackStart(code) ==
    LET r == NewCallback(code) IN
    IF Falsy(code) THEN CatchError(r, <<"Missing code">>)
    ELSE IF MissingCredentials THEN CatchError(r, <<"Missing credentials">>)
    ELSE IF Cached(code)
        THEN sendSuccess([r EXCEPT !.hit = TRUE, !.stale = Expired(usedCodes[code], now)],
                         usedCodes[code].token)
    ELSE [r EXCEPT !.pc = "exchange", !.exchanged = TRUE]

CallbackRequest(code) ==
    /\ callbacks' = Append(callbacks, CallbackStart(code))
    /\ UNCHANGED <<env, now, lastSweep, usedCodes, uploads, logins, popup>>

\* lines 88-111: how the promise of exchangeToken settles; isNull says that
\* the value it resolves to is null
exchangeToken(out) ==
    CASE out.kind = "connError" ->
            [ok |-> FALSE, isNull |-> FALSE, value |-> NoExchangeBody,
             reason |-> <<"ECONNRESET">>]
      [] out.kind = "badJson" ->
            [ok |-> FALSE, isNull |-> FALSE, value |-> NoExchangeBody,
             reason |-> <<"Invalid response from GitHub">>]
      [] out.kind = "jsonNull" ->
            [ok |-> TRUE, isNull |-> TRUE, value |-> NoExchangeBody, reason |-> <<>>]
      [] OTHER -> [ok |-> TRUE, isNull |-> FALSE, value |-> out.body, reason |-> <<>>]

\* line 40 on null: the message of the TypeError that tokenData.error throws
NullTypeError == <<"Cannot read properties of null (reading ", "'", "error", "'", ")">>

\* line 41: the provider error message
ProviderMessage(tokenData) ==
    <<"GitHub: ", tokenData.error, " - ", tokenData.error_description>>

\* the handler looking for the access_token before the error field
CallbackResumeTokenFirst(r0, out) ==
    LET p == exchangeToken(out)
        r == [r0 EXCEPT !.reply = out]
    IN
    IF ~p.ok THEN [req |-> CatchError(r, p.reason), store |-> FALSE]
    ELSE IF p.isNull THEN [req |-> CatchError(r, NullTypeError), store |-> FALSE]
    ELSE IF ~Falsy(p.value.access_token)
        THEN [req |-> sendSuccess(r, p.value.access_token), store |-> TRUE]
    ELSE IF ~Falsy(p.value.error)
        THEN [req |-> CatchError(r, ProviderMessage(p.value)), store |-> FALSE]
    ELSE [req |-> CatchError(r, <<"No access_token in response">>), store |-> FALSE]

\* the handler storing an entry also for the exchange that the provider refused
CallbackResumeRemember(r0, out) ==
    LET p == exchangeToken(out)
        r == [r0 EXCEPT !.reply = out]
    IN
    IF ~p.ok THEN [req |-> CatchError(r, p.reason), store |-> FALSE]
    ELSE IF p.isNull THEN [req |-> CatchError(r, NullTypeError), store |-> FALSE]
    ELSE IF ~Falsy(p.value.error)
        THEN [req |-> CatchError(r, ProviderMessage(p.value)), store |-> TRUE]
    ELSE IF Falsy(p.value.access_token)
        THEN [req |-> CatchError(r, <<"No access_token in response">>), store |-> FALSE]
    ELSE [req |-> sendSuccess(r, p.value.access_token), store |-> TRUE]

\* lines 38-52: the handler after its await, as [req, store]: the request as it
\* ends and whether line 50 stores its token
CallbackResume(r0, out) ==
    LET p == exchangeToken(out)
        r == [r0 EXCEPT !.reply = out]
    IN
    IF ~p.ok THEN [req |-> CatchError(r, p.reason), store |-> FALSE]
    ELSE IF p.isNull THEN [req |-> CatchError(r, NullTypeError), store |-> FALSE]
    ELSE IF ~Falsy(p.value.error)
        THEN [req |-> CatchError(r, ProviderMessage(p.value)), store |-> FALSE]
    ELSE IF Falsy(p.value.access_token)
        THEN [req |-> CatchError(r, <<"No access_token in response">>), store |-> FALSE]
    ELSE [req |-> sendSuccess(r, p.value.access_token), store |-> TRUE]

\* a cache of one slot, whatever the code
CacheSetOneKey(cache, code, token, t) ==
    [c \in DOMAIN cache \cup {"c1"} |->
        IF c = "c1" THEN [token |-> token, timestamp |-> t] ELSE cache[c]]

\* line 50: usedCodes.set(code, { token, timestamp: Date.now() })
CacheSet(cache, code, token, t) ==
    [c \in DOMAIN cache \cup {code} |->
        IF c = code THEN [token |-> token, timestamp |-> t] ELSE cache[c]]

ExchangeResponse(i, out) ==
    /\ callbacks[i].pc = "exchange"
    /\ LET res == CallbackResume(callbacks[i], out) IN
        /\ callbacks' = [callbacks EXCEPT ![i] = res.req]
        /\ usedCodes' = IF res.store
                          THEN CacheSet(usedCodes, res.req.code, res.req.token, now)
                          ELSE usedCodes
    /\ UNCHANGED <<env, now, lastSweep, uploads, logins, popup>>

----------------------------------------------------------------------------
(* The upload handlers of upload.ts *)

\* a header value is a sequence of pieces of text; NoHeader is the undefined
\* of a header the request does not carry
NoHeader == <<Null>>
BearerPrefix == <<"Bearer ">>
AuthHeaders == {NoHeader, <<"Basic ", "ghA">>, <<"Bearer ", "ghA">>, <<"Bearer ", "ghB">>}
ContentTypes == {Null, "multipart/form-data"}
Logins == {"alice"}
\* a login with a character that a request path may not hold
BadLogins == {"al ice"}

\* the requests the model sends: a preflight or a GET carries neither header,
\* and the first handler, which never reads the Authorization header, is sent
\* none
UploadInputs(variant) ==
    [method : {"POST"},
     authorization : IF variant = 1 THEN {NoHeader} ELSE AuthHeaders,
     contentType : ContentTypes]
    \cup [method : {"OPTIONS", "GET"}, authorization : {NoHeader}, contentType : {Null}]

\* what the identity endpoint, the membership endpoint and the upload API may answer
UserOutcomes ==
    {[kind |-> "connError", login |-> Null], [kind |-> "badJson", login |-> Null],
     [kind |-> "jsonNull", login |-> Null]}
    \cup [kind : {"json"}, login : Logins \cup BadLogins \cup {Null, ""}]
MemberOutcomes == {204, 302, 404, -1}
UploadBodies ==
    [code : {200}, full_path : {Null, "", "/x/y.png"}, message : {Null}]
    \cup [code : {500}, full_path : {Null, "/x/y.png"}, message : {"boom"}]
    \cup [code : {200, 500}, full_path : {Null}, message : {""}]
NoBody == [code |-> 0, full_path |-> Null, message |-> Null]
UploadOutcomes ==
    {[kind |-> "connError", body |-> NoBody], [kind |-> "badJson", body |-> NoBody],
     [kind |-> "jsonNull", body |-> NoBody]}
    \cup [kind : {"json"}, body : UploadBodies]
NoUpload == [kind |-> "none", body |-> NoBody]

\* line 103
GITHUB_ORG == "WaveSpeedAI"

\* s.startsWith(prefix)
StartsWith(s, prefix) ==
    Len(s) >= Len(prefix) /\ SubSeq(s, 1, Len(prefix)) = prefix

\* s.replace(piece, ""): the first occurrence of the piece is removed
RemoveFirst(s, piece) ==
    IF \E k \in DOMAIN s : s[k] = piece
        THEN LET k == CHOOSE n \in DOMAIN s :
                        s[n] = piece /\ \A m \in 1..(n - 1) : s[m] # piece
             IN SubSeq(s, 1, k - 1) \o SubSeq(s, k + 1, Len(s))
        ELSE s

\* the test of line 125 without its startsWith half
UnauthorizedIfAbsent(authHeader) == authHeader = NoHeader \/ authHeader = <<>>

\* line 125: !authHeader || !authHeader.startsWith("Bearer ")
Unauthorized(authHeader) ==
    authHeader = NoHeader \/ authHeader = <<>> \/ ~StartsWith(authHeader, BearerPrefix)

\* lines 6-8 and 107-109: the CORS headers each variant sets
CorsHeaders(variant) ==
    [origin |-> "*", methods |-> "POST, OPTIONS",
     headers |-> IF variant = 1 THEN <<"Content-Type">>
                 ELSE <<"Content-Type", "Authorization">>]

NewUpload(variant, input) ==
    [variant |-> variant, method |-> input.method,
     authorization |-> input.authorization, contentType |-> input.contentType,
     cors |-> CorsHeaders(variant), pc |-> "start", calls |-> <<>>,
     user |-> [kind |-> "none", login |-> Null], username |-> Null,
     memberStatus |-> 0, read |-> "none", reply |-> NoUpload,
     statusCode |-> 0, body |-> [kind |-> "none", value |-> Null]]

\* res.statusCode = status; res.end(JSON.stringify({ error: message }))
EndError(r, status, message) ==
    [r EXCEPT !.pc = "done", !.statusCode = status,
              !.body = [kind |-> "error", value |-> message]]

\* an outbound https.request
Call(r, api, token, who) ==
    [r EXCEPT !.calls = Append(@, [api |-> api, token |-> token, who |-> who])]

\* line 131
GithubToken(r) == RemoveFirst(r.authorization, "Bearer ")

\* lines 10-20 and 111-121: the method checks
MethodCheck(r) ==
    IF r.method = "OPTIONS"
        THEN [r EXCEPT !.pc = "done", !.statusCode = 200,
                       !.body = [kind |-> "empty", value |-> Null]]
    ELSE IF r.method # "POST" THEN EndError(r, 405, "Method not allowed")
    ELSE r

\* the API key check left out
KeyCheckSkipped(r) == [r EXCEPT !.pc = "body"]

\* lines 22-27 and 141-146: the API key check; then the body is read
KeyCheck(r) ==
    IF Falsy(env.apiKey) THEN EndError(r, 500, "Missing upload API key")
    ELSE [r EXCEPT !.pc = "body"]

\* lines 4-32: the first handler up to its first await
UploadStart1(input) ==
    LET r == MethodCheck(NewUpload(1, input)) IN
    IF r.pc = "done" THEN r ELSE KeyCheck(r)

\* lines 105-134, 177-179 and 208-236: the second handler up to its first
\* await: the identity lookup of getUsername is started
UploadStart2(input) ==
    LET r == MethodCheck(NewUpload(2, input)) IN
    IF r.pc = "done" THEN r
    ELSE IF Unauthorized(r.authorization)
        THEN EndError(r, 401, "Missing authorization token")
    ELSE [Call(r, "user", GithubToken(r), Null) EXCEPT !.pc = "user"]

UploadRequest(variant, input) ==
    /\ uploads' = Append(uploads, IF variant = 1 THEN UploadStart1(input)
                                  ELSE UploadStart2(input))
    /\ UNCHANGED <<env, now, lastSweep, usedCodes, callbacks, logins, popup>>

\* lines 221-234: what the promise of getUsername resolves to
getUsername(out) ==
    IF out.kind = "json" THEN OrElse(out.login, Null) ELSE Null

\* lines 185-188: https.request throws on a path with a character outside
\* \u0021-\u00ff; thrown in the promise executor, it rejects the promise of
\* checkOrgMembership, which line 134 awaits outside any try: the handler
\* ends without a response
ValidPath(username) == username \notin BadLogins

\* checkOrgMembership without the short circuit of line 180
AfterUsernameNoShortCircuit(r0, out) ==
    [Call([r0 EXCEPT !.user = out], "member", GithubToken(r0), getUsername(out))
        EXCEPT !.pc = "member", !.username = getUsername(out)]

\* lines 179-204: checkOrgMembership after the identity lookup: false at once,
\* or the membership check is started
AfterUsername(r0, out) ==
    LET username == getUsername(out)
        r == [r0 EXCEPT !.user = out]
    IN
    IF Falsy(username)
        THEN EndError(r, 403, "You must be a member of the WaveSpeedAI organization")
    ELSE IF ~ValidPath(username)
        THEN [r EXCEPT !.pc = "rejected", !.username = username]
    ELSE [Call(r, "member", GithubToken(r), username)
            EXCEPT !.pc = "member", !.username = username]

UserResponse(i, out) ==
    /\ uploads[i].pc = "user"
    /\ uploads' = [uploads EXCEPT ![i] = AfterUsername(uploads[i], out)]
    /\ UNCHANGED <<env, now, lastSweep, usedCodes, callbacks, logins, popup>>

\* a membership test that takes the redirect for a success too
IsMemberLoose(status) == status \in {204, 302}

\* lines 200 and 203: what the promise of checkOrgMembership resolves to
IsMember(status) == status = 204

\* lines 134-146: the handler after checkOrgMembership
AfterMembership(r0, status) ==
    LET r == [r0 EXCEPT !.memberStatus = status] IN
    IF ~IsMember(status)
        THEN EndError(r, 403, "You must be a member of the WaveSpeedAI organization")
    ELSE KeyCheck(r)

MemberResponse(i, status) ==
    /\ uploads[i].pc = "member"
    /\ uploads' = [uploads EXCEPT ![i] = AfterMembership(uploads[i], status)]
    /\ UNCHANGED <<env, now, lastSweep, usedCodes, callbacks, logins, popup>>

\* the handler without the content type test of lines 157-162
AfterBodyNoTypeCheck(r0, readOk) ==
    LET r == [r0 EXCEPT !.read = IF readOk THEN "ok" ELSE "failed"] IN
    IF ~readOk THEN EndError(r, 500, "aborted")
    ELSE [Call(r, "upload", <<env.apiKey>>, Null) EXCEPT !.pc = "relay"]

\* lines 29-46 and 148-165: the body was read (or reading it threw); the
\* content type is tested and the relay call is started
AfterBody(r0, readOk) ==
    LET r == [r0 EXCEPT !.read = IF readOk THEN "ok" ELSE "failed"] IN
    IF ~readOk THEN EndError(r, 500, "aborted")
    ELSE IF Falsy(r.contentType) THEN EndError(r, 400, "Missing content-type")
    ELSE [Call(r, "upload", <<env.apiKey>>, Null) EXCEPT !.pc = "relay"]

BodyRead(i, readOk) ==
    /\ uploads[i].pc = "body"
    /\ uploads' = [uploads EXCEPT ![i] = AfterBody(uploads[i], readOk)]
    /\ UNCHANGED <<env, now, lastSweep, usedCodes, callbacks, logins, popup>>

\* uploadToWaveSpeed without the test of the code field
uploadToWaveSpeedAnyCode(out) ==
    CASE out.kind = "connError" -> [ok |-> FALSE, value |-> "ECONNRESET"]
      [] out.kind \in {"badJson", "jsonNull"} ->
            [ok |-> FALSE, value |-> "Invalid response from upload API"]
      [] OTHER ->
            IF ~Falsy(out.body.full_path)
                THEN [ok |-> TRUE, value |-> out.body.full_path]
            ELSE [ok |-> FALSE, value |-> OrElse(out.body.message, "Upload failed")]

\* lines 58-98 and 239-279: how the promise of uploadToWaveSpeed settles
uploadToWaveSpeed(out) ==
    CASE out.kind = "connError" -> [ok |-> FALSE, value |-> "ECONNRESET"]
      [] out.kind = "badJson" -> [ok |-> FALSE, value |-> "Invalid response from upload API"]
      [] out.kind = "jsonNull" -> [ok |-> FALSE, value |-> "Invalid response from upload API"]
      [] OTHER ->
            IF out.body.code = 200 /\ ~Falsy(out.body.full_path)
                THEN [ok |-> TRUE, value |-> out.body.full_path]
            ELSE [ok |-> FALSE, value |-> OrElse(out.body.message, "Upload failed")]

\* lines 46-55 and 165-174: the handler after the relay call
AfterRelay(r0, out) ==
    LET p == uploadToWaveSpeed(out)
        r == [r0 EXCEPT !.reply = out]
    IN
    IF p.ok THEN [r EXCEPT !.pc = "done", !.statusCode = 200,
                           !.body = [kind |-> "url", value |-> p.value]]
    ELSE EndError(r, 500, p.value)

RelayResponse(i, out) ==
    /\ uploads[i].pc = "relay"
    /\ uploads' = [uploads EXCEPT ![i] = AfterRelay(uploads[i], out)]
    /\ UNCHANGED <<env, now, lastSweep, usedCodes, callbacks, logins, popup>>

----------------------------------------------------------------------------
(* The scripts of the callback responses, run by the browser *)

\* line 19
provider == "github"

\* JSON.stringify({ token, provider }) and JSON.stringify({ error: e.message }),
\* as pieces of text; it escapes double quotes and backslashes, which the
\* values here do not hold, and leaves an apostrophe as it is
SuccessJson(token) == <<"{\"token\":\"", token, "\",\"provider\":\"", provider, "\"}">>
ErrorJson(message) == <<"{\"error\":\"">> \o message \o <<"\"}">>

\* line 75 and the text between the apostrophes of lines 78 and 60
Authorizing == <<"authorizing:", provider>>
SuccessLiteral(token) == <<"authorization:", provider, ":success:">> \o SuccessJson(token)
ErrorLiteral(message) == <<"authorization:", provider, ":error:">> \o ErrorJson(message)

\* a literal between apostrophes ends at the first apostrophe in its text;
\* what is left of the text is then a syntax error, and the browser runs
\* nothing of a script that does not compile
Compiles(literal) == \A k \in DOMAIN literal : literal[k] # "'"

NoPopup == [request |-> 0, opener |-> FALSE, pc |-> "none", posted |-> <<>>,
            closed |-> FALSE]

\* lines 72-84: the success script up to its setTimeout
SuccessScript(w, token) ==
    IF ~Compiles(SuccessLiteral(token)) THEN [w EXCEPT !.pc = "done"]
    ELSE IF ~w.opener THEN [w EXCEPT !.pc = "done"]
    ELSE [w EXCEPT !.posted = Append(@, Authorizing), !.pc = "timer"]

\* lines 57-64: the error script
ErrorScript(w, message) ==
    IF ~Compiles(ErrorLiteral(message)) THEN [w EXCEPT !.pc = "done"]
    ELSE IF w.opener THEN [w EXCEPT !.posted = Append(@, ErrorLiteral(message)), !.pc = "done"]
    ELSE [w EXCEPT !.pc = "done"]

\* the popup, opened by a window (opener) or not, loads the response of
\* request i and runs its script
PopupLoad(i, opener) ==
    /\ popup.pc = "none"
    /\ callbacks[i].pc = "done"
    /\ LET w == [NoPopup EXCEPT !.request = i, !.opener = opener] IN
       popup' = IF callbacks[i].script = "success"
                    THEN SuccessScript(w, callbacks[i].token)
                ELSE ErrorScript(w, callbacks[i].error)
    /\ UNCHANGED <<env, now, lastSweep, usedCodes, callbacks, uploads, logins>>

\* lines 76-82: the function given to setTimeout runs
PopupTimeout ==
    /\ popup.pc = "timer"
    /\ popup' = [popup EXCEPT
                    !.posted = Append(@, SuccessLiteral(callbacks[popup.request].token)),
                    !.closed = TRUE, !.pc = "done"]
    /\ UNCHANGED <<env, now, lastSweep, usedCodes, callbacks, uploads, logins>>

----------------------------------------------------------------------------
(* The login handler *)

Hosts == {"cms.example"}
States == {"00000000000000aa", "00000000000000bb"}

\* part_000 lines 5-21: the whole handler, which awaits nothing
LoginHandler(host, state) ==
    IF Falsy(env.client_id)
        THEN [statusCode |-> 500, body |-> "Missing OAUTH_GITHUB_CLIENT_ID",
              location |-> <<>>, calls |-> <<>>]
    ELSE [statusCode |-> 301, body |-> "",
          location |-> <<"https://github.com/login/oauth/authorize",
                         "client_id", env.client_id,
                         "redirect_uri", <<"https://", host, "/callback">>,
                         "scope", "repo,user", "state", state>>,
          calls |-> <<>>]

LoginRequest(host, state) ==
    /\ logins' = Append(logins, LoginHandler(host, state))
    /\ UNCHANGED <<env, now, lastSweep, usedCodes, callbacks, uploads, popup>>

----------------------------------------------------------------------------
(* Specifications *)

Init ==
    /\ env \in [client_id : EnvValues, client_secret : EnvValues, apiKey : EnvValues]
    /\ now = 0
    /\ lastSweep = 0
    /\ usedCodes = <<>>
    /\ callbacks = <<>>
    /\ uploads = <<>>
    /\ logins = <<>>
    /\ popup = NoPopup

CallbackNext ==
    \/ \E code \in CodeParams : Len(callbacks) < MaxCallbacks /\ CallbackRequest(code)
    \/ \E i \in DOMAIN callbacks : \E out \in ExchangeOutcomes : ExchangeResponse(i, out)
    \/ Sweep
    \/ Tick

\* the upload key plays no part in the callback handler
CallbackInit == Init /\ env.apiKey = "set"

CallbackSpec == CallbackInit /\ [][CallbackNext]_vars

\* setInterval keeps the timer running for the lifetime of the process, and
\* time passes
CallbackFairSpec == CallbackSpec /\ WF_vars(Tick) /\ WF_vars(Sweep)

UploadNext ==
    \/ \E variant \in {1, 2} : \E input \in UploadInputs(variant) :
            Len(uploads) < MaxUploads /\ UploadRequest(variant, input)
    \/ \E i \in DOMAIN uploads : \E out \in UserOutcomes : UserResponse(i, out)
    \/ \E i \in DOMAIN uploads : \E status \in MemberOutcomes : MemberResponse(i, status)
    \/ \E i \in DOMAIN uploads : \E readOk \in BOOLEAN : BodyRead(i, readOk)
    \/ \E i \in DOMAIN uploads : \E out \in UploadOutcomes : RelayResponse(i, out)

\* the provider credentials play no part in the upload handlers
UploadInit == Init /\ env.client_id = "set" /\ env.client_secret = "set"

UploadSpec == UploadInit /\ [][UploadNext]_vars

\* the three handlers in one process
Total == Len(callbacks) + Len(uploads) + Len(logins)

Next ==
    \/ \E code \in CodeParams : Total < MaxRequests /\ CallbackRequest(code)
    \/ \E i \in DOMAIN callbacks : \E out \in ExchangeOutcomes : ExchangeResponse(i, out)
    \/ Sweep
    \/ Tick
    \/ \E variant \in {1, 2} : \E input \in UploadInputs(variant) :
            Total < MaxRequests /\ UploadRequest(variant, input)
    \/ \E i \in DOMAIN uploads : \E out \in UserOutcomes : UserResponse(i, out)
    \/ \E i \in DOMAIN uploads : \E status \in MemberOutcomes : MemberResponse(i, status)
    \/ \E i \in DOMAIN uploads : \E readOk \in BOOLEAN : BodyRead(i, readOk)
    \/ \E i \in DOMAIN uploads : \E out \in UploadOutcomes : RelayResponse(i, out)
    \/ \E host \in Hosts : \E state \in States : Total < MaxRequests /\ LoginRequest(host, state)
    \/ \E i \in DOMAIN callbacks : \E opener \in BOOLEAN : PopupLoad(i, opener)
    \/ PopupTimeout

Spec == Init /\ [][Next]_vars

\* every outbound call that was started ends, with a response or with a
\* connection error, and the reading of a request body ends
FairSpec ==
    /\ Spec
    /\ WF_vars(\E i \in DOMAIN callbacks : \E out \in ExchangeOutcomes : ExchangeResponse(i, out))
    /\ WF_vars(\E i \in DOMAIN uploads : \E out \in UserOutcomes : UserResponse(i, out))
    /\ WF_vars(\E i \in DOMAIN uploads : \E status \in MemberOutcomes : MemberResponse(i, status))
    /\ WF_vars(\E i \in DOMAIN uploads : \E readOk \in BOOLEAN : BodyRead(i, readOk))
    /\ WF_vars(\E i \in DOMAIN uploads : \E out \in UploadOutcomes : RelayResponse(i, out))

----------------------------------------------------------------------------
(* The claims *)

\* C1: for a code submitted in two callback requests within the retention
\* window (here: both within the first five minutes of the clock), with the
\* credentials configured and one of the two answered with a token, the
\* exchange call is made at most once and both are answered with the success
\* script carrying the same token.
C1_OneExchangePerCode ==
    (now <= RETENTION_MS /\ ~MissingCredentials) =>
        \A i, j \in DOMAIN callbacks :
            (i # j /\ callbacks[i].code = callbacks[j].code
                   /\ callbacks[i].script = "success")
            => /\ ~(callbacks[i].exchanged /\ callbacks[j].exchanged)
               /\ callbacks[j].pc = "done"
                    => /\ callbacks[j].script = "success"
                       /\ callbacks[j].token = callbacks[i].token

\* C2: the relay call is made in an upload request only if, earlier in that
\* request, the identity lookup returned a login and the membership check for
\* that login returned 204, both made with the request's own bearer token.
C2_RelayOnlyForMembers ==
    \A i \in DOMAIN uploads :
        LET r == uploads[i] IN
        \A k \in DOMAIN r.calls :
            r.calls[k].api = "upload" =>
                /\ r.user.kind = "json" /\ ~Falsy(r.user.login)
                /\ r.memberStatus = 204
                /\ \E a \in 1..(k - 1) : \E b \in 1..(k - 1) :
                    /\ a < b
                    /\ r.calls[a].api = "user"
                    /\ r.calls[b].api = "member"
                    /\ r.calls[b].who = r.user.login
                    /\ r.calls[a].token = Tail(r.authorization)
                    /\ r.calls[b].token = Tail(r.authorization)
                    /\ Head(r.authorization) = "Bearer "

\* C3: every exchange call for a code is started in a state where the cache
\* holds no entry for that code.
C3_ExchangeOnlyOnMiss ==
    [][\A i \in DOMAIN callbacks' :
          (i \notin DOMAIN callbacks /\ callbacks'[i].exchanged)
          => /\ callbacks'[i].code \notin DOMAIN usedCodes
             /\ callbacks'[i].code \notin DOMAIN usedCodes']_vars

\* C3 witness: an exchange was started for a code, and another request for
\* the same code found the entry and started none.
C3_Witness ==
    \E i, j \in DOMAIN callbacks :
        /\ callbacks[i].code = callbacks[j].code
        /\ callbacks[i].exchanged /\ callbacks[i].script = "success"
        /\ callbacks[j].hit /\ ~callbacks[j].exchanged

\* C4: once an entry for a code is in the cache, its token and timestamp do
\* not change as long as it stays there.
C4_EntriesNeverUpdated ==
    [][\A c \in DOMAIN usedCodes :
          c \in DOMAIN usedCodes' => usedCodes'[c] = usedCodes[c]]_vars

\* C5: right after a run of the sweep no entry is older than five minutes,
\* and every entry is eventually removed: at every moment, each code is
\* absent from the cache then or later.
C5_SweepRemovesExpired ==
    /\ [][lastSweep' # lastSweep =>
            \A c \in DOMAIN usedCodes' :
                now' - usedCodes'[c].timestamp <= 5 * 60 * 1000]_vars
    /\ \A c \in Codes : []<>(c \notin DOMAIN usedCodes)

\* C5 witness: the sweep has just run and the entry that a successful
\* exchange had inserted is gone.
C5_Witness ==
    /\ lastSweep = now
    /\ \E i \in DOMAIN callbacks :
        /\ callbacks[i].exchanged /\ callbacks[i].script = "success"
        /\ callbacks[i].code \notin DOMAIN usedCodes

\* the request fell in one of the error cases of the callback handler
CallbackErrorCase(r) ==
    \/ Falsy(r.code)
    \/ MissingCredentials
    \/ r.reply.kind \in {"connError", "badJson", "jsonNull"}
    \/ r.reply.kind = "json" /\ r.reply.body.error \notin {Null, ""}
    \/ r.reply.kind = "json" /\ r.reply.body.access_token \in {Null, ""}

BadAuthorization(r) ==
    r.authorization = NoHeader \/ r.authorization = <<>> \/ Head(r.authorization) # "Bearer "

C8_NonMember403 ==
    \A i \in DOMAIN uploads :
        LET r == uploads[i] IN
        (r.user.kind = "json" /\ r.user.login \in Logins /\ r.memberStatus \notin {0, 204}) =>
            /\ r.pc = "done"
            /\ r.statusCode = 403
            /\ \A k \in DOMAIN r.calls : r.calls[k].api # "upload"

\* C8 witness: one request was refused on a 404, another on a connection error.
C8_Witness ==
    /\ \E i \in DOMAIN uploads :
        uploads[i].user.login \in Logins /\ uploads[i].memberStatus = 404
    /\ \E i \in DOMAIN uploads :
        uploads[i].user.login \in Logins /\ uploads[i].memberStatus = -1

\* C9 as stated: with a required configuration value absent, the request is
\* answered 500 and no outbound call is made in it (for an upload: the
\* request that reaches the key check).
C9_MissingConfig500 ==
    /\ Falsy(env.client_id) =>
        \A i \in DOMAIN logins : logins[i].statusCode = 500 /\ logins[i].calls = <<>>
    /\ MissingCredentials =>
        \A i \in DOMAIN callbacks :
            /\ (callbacks[i].pc = "done" /\ ~Falsy(callbacks[i].code))
                    => callbacks[i].statusCode = 500
            /\ ~callbacks[i].exchanged
    /\ Falsy(env.apiKey) =>
        \A i \in DOMAIN uploads :
            uploads[i].body.value = "Missing upload API key" =>
                uploads[i].statusCode = 500 /\ uploads[i].calls = <<>>

\* C9 as amended: with the client id absent a login request is answered 500;
\* with the client id or secret absent a callback request is answered 200
\* with the error script; with the upload key absent a POST that passes the
\* checks before the key check is answered 500.  The exchange call and the
\* relay call are never made; the handler with the organisation check has
\* made its identity lookup and its membership check before it tests the key.
C9_MissingConfig ==
    /\ Falsy(env.client_id) =>
        \A i \in DOMAIN logins : logins[i].statusCode = 500 /\ logins[i].calls = <<>>
    /\ MissingCredentials =>
        \A i \in DOMAIN callbacks :
            /\ callbacks[i].pc = "done" /\ callbacks[i].statusCode = 200
            /\ callbacks[i].script = "error"
            /\ callbacks[i].error =
                    IF Falsy(callbacks[i].code) THEN <<"Missing code">>
                    ELSE <<"Missing credentials">>
            /\ ~callbacks[i].exchanged
    /\ Falsy(env.apiKey) =>
        \A i \in DOMAIN uploads :
            LET r == uploads[i] IN
            /\ \A k \in DOMAIN r.calls : r.calls[k].api # "upload"
            /\ r.variant = 1 => r.calls = <<>>
            /\ (r.method = "POST" /\ (r.variant = 1 \/ r.memberStatus = 204)) =>
                /\ r.pc = "done" /\ r.statusCode = 500
                /\ r.body = [kind |-> "error", value |-> "Missing upload API key"]
                /\ r.variant = 2 =>
                    /\ Len(r.calls) = 2
                    /\ r.calls[1].api = "user" /\ r.calls[2].api = "member"

\* C9 witness: with the upload key absent, a member's request was answered 500
\* after its two calls.
C9_Witness ==
    /\ Falsy(env.apiKey)
    /\ \E i \in DOMAIN uploads :
        /\ uploads[i].variant = 2 /\ uploads[i].memberStatus = 204
        /\ uploads[i].statusCode = 500 /\ Len(uploads[i].calls) = 2

\* the identity lookup of the request has ended without a username
NoUsername(r) ==
    \/ r.user.kind \in {"connError", "badJson", "jsonNull"}
    \/ r.user.kind = "json" /\ r.user.login \in {Null, ""}

\* C10: when the identity lookup yields no username the request is refused
\* with no membership-check call made; a membership-check call is made only
\* after the identity lookup of the same request has ended with a login, and
\* for that login.
C10_ShortCircuit ==
    \A i \in DOMAIN uploads :
        LET r == uploads[i] IN
        /\ NoUsername(r) =>
            /\ r.pc = "done" /\ r.statusCode = 403
            /\ Len(r.calls) = 1 /\ r.calls[1].api = "user"
        /\ \A k \in DOMAIN r.calls :
            r.calls[k].api = "member" =>
                /\ k = 2 /\ r.calls[1].api = "user"
                /\ r.user.kind = "json" /\ r.user.login \in Logins
                /\ r.calls[k].who = r.user.login
        /\ r.pc = "user" => Len(r.calls) = 1

\* C10 witness: one request was refused after a body without login, and
\* another went on to the membership check.
C10_Witness ==
    /\ \E i \in DOMAIN uploads :
        uploads[i].user = [kind |-> "json", login |-> Null] /\ uploads[i].statusCode = 403
    /\ \E i \in DOMAIN uploads :
        Len(uploads[i].calls) = 2 /\ uploads[i].calls[2].api = "member"

----------------------------------------------------------------------------
(* C11 *)

\* the upload request r has the answer of the relay call
Relayed(r) == r.pc = "done" /\ r.reply.kind # "none"

Answered(r, status, kind, value) ==
    r.statusCode = status /\ r.body = [kind |-> kind, value |-> value]

\* the answer the claim gives to a body that parses to an object
ObjectBodyAnswer(r) ==
    LET b == r.reply.body IN
    IF b.code = 200 /\ b.full_path \notin {Null, ""}
        THEN Answered(r, 200, "url", b.full_path)
    ELSE IF b.message \notin {Null, ""}
        THEN Answered(r, 500, "error", b.message)
    ELSE Answered(r, 500, "error", "Upload failed")

\* C11 as stated: every body of the relay call that parses as JSON, null
\* included, is answered 200 with the url when its code is 200 and it has a
\* non-empty data.full_path, and otherwise 500 with its non-empty message or
\* else "Upload failed"; a body that does not parse is answered 500 with
\* "Invalid response from upload API".
C11_EveryJsonBody ==
    \A i \in DOMAIN uploads :
        LET r == uploads[i] IN
        Relayed(r) =>
            /\ r.reply.kind = "json" => ObjectBodyAnswer(r)
            /\ r.reply.kind = "jsonNull" => Answered(r, 500, "error", "Upload failed")
            /\ r.reply.kind = "badJson" =>
                    Answered(r, 500, "error", "Invalid response from upload API")

\* C11 amended: the rule of the code and the message holds of every body that
\* parses to a JSON value other than null; the body null is answered 500
\* with "Invalid response from upload API", as is a body that does not parse.
C11_RelayResult ==
    \A i \in DOMAIN uploads :
        LET r == uploads[i] IN
        Relayed(r) =>
            /\ r.reply.kind = "json" => ObjectBodyAnswer(r)
            /\ r.reply.kind \in {"jsonNull", "badJson"} =>
                    Answered(r, 500, "error", "Invalid response from upload API")

\* the four cases in one run of two requests: a url and the message of the
\* body, or the fallback message and the body null
C11_Witness ==
    /\ Len(uploads) = 2
    /\ Relayed(uploads[1]) /\ Relayed(uploads[2])
    /\ \/ /\ uploads[1].body.kind = "url"
          /\ uploads[2].reply.kind = "json" /\ uploads[2].body.value = "boom"
       \/ /\ uploads[1].reply.kind = "json" /\ uploads[1].body.value = "Upload failed"
          /\ uploads[2].reply.kind = "jsonNull"

----------------------------------------------------------------------------
(* C12 *)

\* a POST without Content-Type to the handler with the organisation check
NoContentType(r) == r.variant = 2 /\ r.method = "POST" /\ Falsy(r.contentType)

\* r passed the authorization, membership and API key checks
PassedChecks(r) == ~BadAuthorization(r) /\ r.memberStatus = 204 /\ ~Falsy(env.apiKey)

\* what C12 says of every such request whatever became of its body: no relay
\* call; a 400 only after the three checks; 401, 403 or 500 for the request
\* that fails one of them
NoContentTypeChecks(r) ==
    /\ \A k \in DOMAIN r.calls : r.calls[k].api # "upload"
    /\ r.statusCode = 400 =>
            /\ PassedChecks(r)
            /\ r.body = [kind |-> "error", value |-> "Missing content-type"]
    /\ (r.pc = "done" /\ BadAuthorization(r)) => r.statusCode = 401
    /\ (r.pc = "done" /\ ~BadAuthorization(r) /\ r.memberStatus # 204) => r.statusCode = 403
    /\ (r.pc = "done" /\ ~BadAuthorization(r) /\ r.memberStatus = 204 /\ Falsy(env.apiKey))
            => r.statusCode = 500

\* C12 as stated: a POST without Content-Type is answered 400 with "Missing
\* content-type" and without the relay call, after the authorization,
\* membership and API key checks, whose failures are answered 401, 403 and 500.
C12_NoContentType400 ==
    \A i \in DOMAIN uploads :
        LET r == uploads[i] IN
        NoContentType(r) =>
            /\ NoContentTypeChecks(r)
            /\ (r.pc = "done" /\ PassedChecks(r)) => r.statusCode = 400

\* C12 amended: the same, for the request whose body was read; the request
\* whose body could not be read is answered 500, the content type untested.
C12_NoContentType ==
    \A i \in DOMAIN uploads :
        LET r == uploads[i] IN
        NoContentType(r) =>
            /\ NoContentTypeChecks(r)
            /\ (r.pc = "done" /\ PassedChecks(r)) =>
                    /\ r.read = "ok" => r.statusCode = 400
                    /\ r.read = "failed" => r.statusCode = 500
                    /\ r.read # "none"

\* C12 witness: one such request got its 400 after two outbound calls, and
\* another one, from a non-member, got 403.
C12_Witness ==
    /\ \E i \in DOMAIN uploads :
        /\ NoContentType(uploads[i]) /\ uploads[i].statusCode = 400
        /\ Len(uploads[i].calls) = 2
    /\ \E i \in DOMAIN uploads :
        /\ NoContentType(uploads[i]) /\ uploads[i].statusCode = 403

----------------------------------------------------------------------------
(* C13 *)

Includes(list, name) == \E k \in DOMAIN list : list[k] = name

\* C13: every response of an upload handler, whatever its status, carries
\* Access-Control-Allow-Origin "*", Access-Control-Allow-Methods
\* "POST, OPTIONS" and an Access-Control-Allow-Headers value that names both
\* Content-Type and Authorization.
C13_CorsOnEveryResponse ==
    \A i \in DOMAIN uploads :
        LET r == uploads[i] IN
        r.pc = "done" =>
            /\ r.cors.origin = "*"
            /\ r.cors.methods = "POST, OPTIONS"
            /\ Includes(r.cors.headers, "Content-Type")
            /\ Includes(r.cors.headers, "Authorization")

----------------------------------------------------------------------------
(* C14 *)

\* C14: in a popup with an opener the success script posts exactly two
\* messages, "authorizing:<provider>" and then, from its timer,
\* "authorization:<provider>:success:<JSON>", and closes the popup only with
\* the second; the error script posts exactly the one message
\* "authorization:<provider>:error:<JSON>" and never closes the popup; in a
\* window without opener neither script posts anything.
C14_ScriptMessages ==
    popup.pc # "none" =>
        LET r == callbacks[popup.request] IN
        /\ ~popup.opener => popup.posted = <<>>
        /\ (popup.opener /\ r.script = "success") =>
                \/ /\ popup.pc = "timer"
                   /\ popup.posted = <<Authorizing>>
                   /\ ~popup.closed
                \/ /\ popup.pc = "done"
                   /\ popup.posted = <<Authorizing, SuccessLiteral(r.token)>>
                   /\ popup.closed
        /\ (popup.opener /\ r.script = "error") =>
                /\ popup.posted = <<ErrorLiteral(r.error)>>
                /\ ~popup.closed

----------------------------------------------------------------------------
(* C15 *)

\* callback request i ends its response in the step at hand
EndsNow(i) ==
    /\ i \in DOMAIN callbacks'
    /\ callbacks'[i].pc = "done"
    /\ i \in DOMAIN callbacks => callbacks[i].pc # "done"

\* C15: a step in which a callback request ends with the error script leaves
\* the cache as it was; an entry enters the cache only in a step that ends a
\* request with the success script on the token of its own exchange; and a
\* request with a code that the cache does not hold (a code whose exchange
\* failed among them) starts a new exchange call when it passes the code and
\* credentials tests.
C15_FailuresNotRemembered ==
    [][/\ (\E i \in DOMAIN callbacks' : EndsNow(i) /\ callbacks'[i].script = "error")
            => usedCodes' = usedCodes
       /\ \A c \in DOMAIN usedCodes' :
            (c \notin DOMAIN usedCodes \/ usedCodes'[c] # usedCodes[c]) =>
                \E i \in DOMAIN callbacks' :
                    /\ EndsNow(i) /\ callbacks'[i].code = c
                    /\ callbacks'[i].exchanged /\ callbacks'[i].script = "success"
                    /\ callbacks'[i].reply.kind = "json"
                    /\ callbacks'[i].reply.body.access_token = usedCodes'[c].token
       /\ \A i \in DOMAIN callbacks' :
            (/\ i \notin DOMAIN callbacks
             /\ ~Falsy(callbacks'[i].code) /\ ~MissingCredentials
             /\ callbacks'[i].code \notin DOMAIN usedCodes)
            => callbacks'[i].pc = "exchange" /\ callbacks'[i].exchanged]_vars

\* C15 witness: the exchange of the first request failed, the cache holds
\* nothing for its code, and the next request for that code is in its own
\* exchange call.
C15_Witness ==
    /\ Len(callbacks) = 2
    /\ callbacks[1].code = callbacks[2].code
    /\ callbacks[1].exchanged /\ callbacks[1].script = "error"
    /\ callbacks[1].code \notin DOMAIN usedCodes
    /\ callbacks[2].pc = "exchange"

----------------------------------------------------------------------------
(* C16 *)

\* C16: an entry stays in the cache, with its token, through every step but
\* a run of the sweep at which it is older than five minutes: no callback
\* request and no earlier sweep removes it or loses its token.
C16_EntriesStayUntilExpired ==
    [][\A c \in DOMAIN usedCodes :
          \/ c \in DOMAIN usedCodes' /\ usedCodes'[c].token = usedCodes[c].token
          \/ /\ lastSweep' # lastSweep
             /\ now - usedCodes[c].timestamp > 5 * 60 * 1000]_vars

----------------------------------------------------------------------------
(* C17 *)

\* C17: a callback request with a code and the credentials configured that
\* arrives while the cache holds its code, whatever the age of the entry, is
\* answered in that step with the success script carrying the stored token,
\* starts no exchange call, and leaves the cache, timestamps included, as it
\* was.
C17_HitLeavesCache ==
    [][\A i \in DOMAIN callbacks' :
          (/\ i \notin DOMAIN callbacks
           /\ ~MissingCredentials
           /\ callbacks'[i].code \in DOMAIN usedCodes)
          => /\ callbacks'[i].pc = "done"
             /\ callbacks'[i].statusCode = 200
             /\ callbacks'[i].script = "success"
             /\ callbacks'[i].token = usedCodes[callbacks'[i].code].token
             /\ ~callbacks'[i].exchanged
             /\ usedCodes' = usedCodes]_vars

\* C17 witness: a request was answered from an entry older than five
\* minutes, which the sweep had not yet removed.
C17_Witness ==
    \E i \in DOMAIN callbacks :
        /\ callbacks[i].hit /\ callbacks[i].stale
        /\ callbacks[i].script = "success" /\ ~callbacks[i].exchanged
        /\ callbacks[i].code \in DOMAIN usedCodes
        /\ callbacks[i].token = usedCodes[callbacks[i].code].token

----------------------------------------------------------------------------
(* C18 *)

\* the error script with this message
ErrorIs(r, message) == r.script = "error" /\ r.error = message

\* the error script with a message that is neither the provider error nor
\* the missing token
OtherFailure(r) ==
    /\ r.script = "error"
    /\ r.error # <<"No access_token in response">>
    /\ Head(r.error) # "GitHub: "

HasError(body) == body.error \notin {Null, ""}
HasToken(body) == body.access_token \notin {Null, ""}

\* what C18 says of the request r answered on a body that parsed to an
\* object, and of a token in the answer
ObjectBodyOutcome(r) ==
    LET b == r.reply.body IN
    /\ (r.reply.kind = "json" /\ HasError(b)) =>
            ErrorIs(r, <<"GitHub: ", b.error, " - ", b.error_description>>)
    /\ (r.reply.kind = "json" /\ ~HasError(b) /\ ~HasToken(b)) =>
            ErrorIs(r, <<"No access_token in response">>)
    /\ r.script = "success" <=> (r.reply.kind = "json" /\ ~HasError(b) /\ HasToken(b))
    /\ r.script = "success" => r.token = b.access_token

\* C18 as stated: a parsed body with an error field gives the provider error,
\* with or without an access_token; a parsed body without error and without
\* access_token, the body null among them, gives "No access_token in
\* response"; a connection error or a body that does not parse gives another
\* failure; only a parsed body with access_token and without error gives a token.
C18_ExchangeOutcomeOrder ==
    \A i \in DOMAIN callbacks :
        LET r == callbacks[i] IN
        (r.pc = "done" /\ r.exchanged) =>
            /\ ObjectBodyOutcome(r)
            /\ r.reply.kind = "jsonNull" => ErrorIs(r, <<"No access_token in response">>)
            /\ r.reply.kind \in {"connError", "badJson"} => OtherFailure(r)

\* C18 amended: the same for every parsed body but null; the body null, like
\* a connection error or a body that does not parse, gives a failure that is
\* neither the provider error nor the missing token.
C18_ExchangeOutcome ==
    \A i \in DOMAIN callbacks :
        LET r == callbacks[i] IN
        (r.pc = "done" /\ r.exchanged) =>
            /\ ObjectBodyOutcome(r)
            /\ r.reply.kind \in {"connError", "badJson", "jsonNull"} => OtherFailure(r)

\* C18 witness: a body with both error and access_token was answered with
\* the provider error, and the body null with the other failure.
C18_Witness ==
    /\ \E i \in DOMAIN callbacks :
        /\ callbacks[i].reply.kind = "json"
        /\ HasError(callbacks[i].reply.body) /\ HasToken(callbacks[i].reply.body)
        /\ callbacks[i].script = "error"
    /\ \E i \in DOMAIN callbacks :
        callbacks[i].reply.kind = "jsonNull" /\ callbacks[i].script = "error"

----------------------------------------------------------------------------
(* C19 *)

\* the provider returned this token to an exchange call made for this code
ReturnedFor(code, token) ==
    \E j \in DOMAIN callbacks :
        /\ callbacks[j].code = code /\ callbacks[j].exchanged
        /\ callbacks[j].reply.kind = "json"
        /\ callbacks[j].reply.body.access_token = token

\* C19: the token stored under a code, and the token in every success script
\* answering a request for a code, is a token that the provider returned to
\* an exchange call for that same code.
C19_TokensNeverCrossCodes ==
    /\ \A c \in DOMAIN usedCodes : ReturnedFor(c, usedCodes[c].token)
    /\ \A i \in DOMAIN callbacks :
            callbacks[i].script = "success" =>
                ReturnedFor(callbacks[i].code, callbacks[i].token)

\* C19 witness: two requests with different codes were in their exchange
\* calls together and got different tokens; the cache holds each under its
\* own code.
C19_Witness ==
    /\ Len(callbacks) = 2
    /\ callbacks[1].code # callbacks[2].code
    /\ callbacks[1].script = "success" /\ callbacks[2].script = "success"
    /\ callbacks[1].token # callbacks[2].token
    /\ \A i \in {1, 2} :
        /\ callbacks[i].code \in DOMAIN usedCodes
        /\ usedCodes[callbacks[i].code].token = callbacks[i].token

----------------------------------------------------------------------------
(* C20 *)

\* C20: when every outbound call ends with a response or a connection
\* error, every callback request and every upload request that was received
\* gets its response ended, and an ended response is not touched again.
C20_EveryRequestAnswered ==
    /\ \A i \in 1..MaxRequests :
            [](i \in DOMAIN callbacks =>
                    <>(i \in DOMAIN callbacks /\ callbacks[i].pc = "done"))
    /\ \A i \in 1..MaxRequests :
            [](i \in DOMAIN uploads =>
                    <>(i \in DOMAIN uploads /\ uploads[i].pc = "done"))
    /\ [][/\ \A i \in DOMAIN callbacks :
                callbacks[i].pc = "done" => callbacks'[i] = callbacks[i]
          /\ \A i \in DOMAIN uploads :
                uploads[i].pc = "done" => uploads'[i] = uploads[i]]_vars
====
